---- MODULE Spec2Model ----
(***************************************************************************)
(* A model of pixel-artist: the block dimension solver (find_block_dim),   *)
(* the grid mapper (get_bbox_at_pos / get_block_at_pos), the color reducer *)
(* (avg_color) and the pipeline (PixelArt.__init__, PixelArt.pixelate,     *)
(* validate_args, main).                                                   *)
(***************************************************************************)
EXTENDS Integers, Sequences, FiniteSets, TLC

\* ------------------------------------------------------------------ bounds
MaxDim == 12
MaxGranularity == 7
MaxBlockPixels == 2     \* pixels of a block handed to avg_color on its own
MaxPalette == 3         \* entries of a palette
MaxWidth == 4           \* image width in pixels
MaxHeight == 4          \* image height in pixels
MaxApiGranularity == 3  \* granularity handed to PixelArt
MaxOut == 2             \* how far outside 0..nblocks-1 a block index is asked
MaxPermBlocks == 4      \* grids whose every paste order is enumerated

\* ------------------------------------------------------------------ inputs
\* pixels are (R, G, B) tuples of 0..255
Black == <<0, 0, 0>>
Red == <<255, 0, 0>>
White == <<255, 255, 255>>
Dark == <<10, 20, 31>>
PixelValues == {Black, Red}
PaletteColors == {Black, Red, White}

RGB == "rgb"
LAB == "lab"

\* values colormath's delta_e_cie1976 is taken to return (only their order is
\* read by avg_color)
LabDiffValues == 0..2

SeqsUpTo(S, n) == UNION {[1..k -> S] : k \in 0..n}

VARIABLES
    fbd,            \* one call of find_block_dim: arguments, locals, position
    red,            \* one call of avg_color: inputs, differences, result
    pc,             \* where the run of the tool is
    caller,         \* "main" (command line) or "api" (PixelArt used directly)
    env,            \* the files: the image behind filename, the palette file
    args,           \* the arguments: argparse's dict, validate_args' dict,
                    \* or the arguments of PixelArt(...)
    self,           \* the fields of the PixelArt object
    pixelated_im,   \* pixelate's working copy
    loop_i,         \* pixelate's loop index i
    colors,         \* the color pasted for each block so far, in paste order
    pasted,         \* the block index of each paste so far, in paste order
    labmemo,        \* what the Lab scan returned for each block mean so far
    ret,            \* what the run returned or raised
    query,          \* the last answer of get_bbox_at_pos / get_block_at_pos
    out             \* what main did with the result: shown, saved

pipeVars == <<pc, caller, env, args, self, pixelated_im, loop_i, colors, pasted,
              labmemo, ret, query, out>>

vars == <<fbd, red, pc, caller, env, args, self, pixelated_im, loop_i, colors,
          pasted, labmemo, ret, query, out>>

\* =================================================== find_block_dim (steps)
\* core.py:112  candidate = 0
InitCandidateAlt == 0 + 1
InitCandidate == 0

\* core.py:113  block_dim = 1
InitBlockDim == 1

\* core.py:114  counter = 0
InitCounterAlt == 0 - 1
InitCounter == 0

\* core.py:120  counter = self.granularity - 1
ForcedCounterAlt(granularity) == granularity - 2
ForcedCounter(granularity) == granularity - 1

\* core.py:123  if candidate <= dim
FeasibleAlt(candidate, dim) == candidate <= dim \/ candidate > dim
Feasible(candidate, dim) == candidate <= dim

\* core.py:128  assert (dim % block_dim == 0 and block_dim <= dim)
ClosingAssertion(dim, block_dim) == dim % block_dim = 0 /\ block_dim <= dim

FbdStart(dim, granularity) ==
    [dim |-> dim, granularity |-> granularity, candidate |-> InitCandidate,
     block_dim |-> InitBlockDim, counter |-> InitCounter, pc |-> "outer"]

FbdIdle ==
    [dim |-> 1, granularity |-> 1, candidate |-> 0, block_dim |-> 1,
     counter |-> 0, pc |-> "idle"]

\* core.py:115-116  the outer loop test holds: candidate += 1
FbdOuterStep ==
    /\ fbd.pc = "outer"
    /\ fbd.counter # fbd.granularity
    /\ fbd' = [fbd EXCEPT !.candidate = @ + 1, !.pc = "inner"]
    /\ UNCHANGED <<red, pipeVars>>

\* core.py:117-121  one evaluation of the inner loop test and, if it holds,
\* one pass of the inner loop body
FbdInnerStep ==
    /\ fbd.pc = "inner"
    /\ IF fbd.dim % fbd.candidate # 0
       THEN IF fbd.candidate + 1 > fbd.dim
            THEN fbd' = [fbd EXCEPT !.candidate = @ + 1,
                                    !.counter = ForcedCounter(fbd.granularity),
                                    !.pc = "check"]
            ELSE fbd' = [fbd EXCEPT !.candidate = @ + 1]
       ELSE fbd' = [fbd EXCEPT !.pc = "check"]
    /\ UNCHANGED <<red, pipeVars>>

\* core.py:123-126  record the feasible length, counter += 1
FbdCheckStep ==
    /\ fbd.pc = "check"
    /\ fbd' = [fbd EXCEPT
                 !.block_dim = IF Feasible(fbd.candidate, fbd.dim)
                               THEN fbd.candidate ELSE @,
                 !.counter = @ + 1,
                 !.pc = "outer"]
    /\ UNCHANGED <<red, pipeVars>>

\* core.py:115,128-129  the outer loop test fails: closing assertion, return
FbdReturn ==
    /\ fbd.pc = "outer"
    /\ fbd.counter = fbd.granularity
    /\ fbd' = [fbd EXCEPT !.pc = IF ClosingAssertion(fbd.dim, fbd.block_dim)
                                 THEN "done" ELSE "assert_failed"]
    /\ UNCHANGED <<red, pipeVars>>

\* placeholder of red while avg_color is not being called on its own
RedIdle ==
    [pixels |-> <<>>, palette |-> <<>>, color_space |-> RGB, diffs |-> <<>>,
     pc |-> "idle", result |-> <<>>]

NoImage == [size |-> <<0, 0>>, px |-> <<>>]

SelfNone ==
    [granularity |-> 0, ncolors |-> 0, nbits |-> 0, color_space |-> RGB,
     verbose |-> FALSE, im |-> NoImage, palette |-> <<>>, width |-> 0,
     height |-> 0, block_width |-> 0, block_height |-> 0, grid_width |-> 0,
     grid_height |-> 0, nblocks |-> 0, blocks |-> <<>>]

NoRet == [kind |-> "none"]
NoQuery == [kind |-> "none"]
NoOut == [shown |-> FALSE, saved |-> <<>>]
NoEnv == [readable |-> FALSE, im |-> NoImage, palette_ok |-> FALSE, palette |-> <<>>]

\* the tool is not running (find_block_dim or avg_color is called on its own)
PipeIdle ==
    /\ pc = "idle"
    /\ caller = "none"
    /\ env = NoEnv
    /\ args = <<>>
    /\ self = SelfNone
    /\ pixelated_im = NoImage
    /\ loop_i = 0
    /\ colors = <<>>
    /\ pasted = <<>>
    /\ labmemo = <<>>
    /\ ret = NoRet
    /\ query = NoQuery
    /\ out = NoOut

InitFindBlockDim ==
    /\ \E dim \in 1..MaxDim, granularity \in 1..MaxGranularity :
           fbd = FbdStart(dim, granularity)
    /\ red = RedIdle
    /\ PipeIdle

NextFindBlockDim ==
    \/ FbdOuterStep
    \/ FbdInnerStep
    \/ FbdCheckStep
    \/ FbdReturn

SpecFindBlockDim == InitFindBlockDim /\ [][NextFindBlockDim]_vars

\* the interpreter keeps running the loops of a call until it returns
SpecFindBlockDimFair == SpecFindBlockDim /\ WF_vars(NextFindBlockDim)

\* ================================================ find_block_dim (function)
\* The same loops as an operator, for the callers in PixelArt.__init__.
RECURSIVE FbdInner(_, _, _, _)
\* core.py:117-121  returns <<candidate, counter>> after the inner loop
FbdInner(dim, granularity, candidate, counter) ==
    IF dim % candidate # 0
    THEN IF candidate + 1 > dim
         THEN <<candidate + 1, ForcedCounter(granularity)>>
         ELSE FbdInner(dim, granularity, candidate + 1, counter)
    ELSE <<candidate, counter>>

RECURSIVE FbdOuter(_, _, _, _, _)
\* core.py:115-126
FbdOuter(dim, granularity, candidate, block_dim, counter) ==
    IF counter # granularity
    THEN LET r == FbdInner(dim, granularity, candidate + 1, counter)
         IN  FbdOuter(dim, granularity, r[1],
                      IF Feasible(r[1], dim) THEN r[1] ELSE block_dim,
                      r[2] + 1)
    ELSE block_dim

\* core.py:101-129
find_block_dim(dim, granularity) ==
    FbdOuter(dim, granularity, InitCandidate, InitBlockDim, InitCounter)

\* ------------------------------------------------------------ divisors
Divisors(dim) == {d \in 1..dim : dim % d = 0}

NthSmallest(S, n) == CHOOSE d \in S : Cardinality({e \in S : e <= d}) = n

\* ------------------------------------------------------------ claims C1-C3
FbdDone == fbd.pc = "done"

\* C1: for every dim >= 1 and granularity >= 1 the closing assertion of
\* find_block_dim never fails, and the returned block_dim is an integer with
\* 1 <= block_dim <= dim and dim % block_dim = 0.
C1_DividesAndBounded ==
    /\ fbd.pc # "assert_failed"
    /\ FbdDone => /\ fbd.block_dim \in 1..fbd.dim
                  /\ fbd.dim % fbd.block_dim = 0

\* a call that went past dim (saturation) and still returned a divisor
C1_Witness ==
    /\ FbdDone
    /\ fbd.candidate > fbd.dim
    /\ fbd.dim = 9
    /\ fbd.block_dim = 9

\* C2: find_block_dim(dim, g) is the g-th smallest positive divisor of dim
\* when g is at most the number of divisors of dim, and dim for every larger
\* g; so for fixed dim the result is non-decreasing in g and stays at dim
\* once g reaches the divisor count.
C2_NthDivisorOrDim ==
    FbdDone =>
        LET n == Cardinality(Divisors(fbd.dim))
        IN  /\ fbd.granularity <= n
                => fbd.block_dim = NthSmallest(Divisors(fbd.dim), fbd.granularity)
            /\ fbd.granularity >= n => fbd.block_dim = fbd.dim
            /\ \A g \in 1..fbd.granularity :
                   find_block_dim(fbd.dim, g) <= fbd.block_dim

\* a call that returned a divisor strictly between 1 and dim
C2_Witness ==
    /\ FbdDone
    /\ fbd.dim = 12
    /\ fbd.granularity = 4
    /\ fbd.block_dim = 4

\* smallest divisor of dim greater than 1, or 1 when there is none
SmallestDivisorAbove1(dim) ==
    LET S == Divisors(dim) \ {1}
    IN  IF S = {} THEN 1 ELSE CHOOSE d \in S : \A e \in S : d <= e

\* C3 as stated: with granularity = 1 find_block_dim returns the smallest
\* divisor of dim greater than 1 when there is one (find_block_dim(12, 1) = 2)
\* and 1 only when there is none.
C3_Original ==
    (FbdDone /\ fbd.granularity = 1)
        => fbd.block_dim = SmallestDivisorAbove1(fbd.dim)

\* C3 (amended): with granularity = 1 find_block_dim returns 1 for every dim
\* (find_block_dim(12, 1) = 1); the smallest divisor of dim greater than 1 is
\* what granularity = 2 returns (find_block_dim(12, 2) = 2).
C3_GranularityOneIsOne ==
    /\ (FbdDone /\ fbd.granularity = 1) => fbd.block_dim = 1
    /\ (FbdDone /\ fbd.granularity = 2)
           => fbd.block_dim = SmallestDivisorAbove1(fbd.dim)

C3_Witness ==
    /\ FbdDone
    /\ fbd.granularity = 1
    /\ fbd.dim = 12
    /\ fbd.block_dim = 1

\* =========================================================== color reducer
\* core.py:205-212  the channel means of a block.  The float the code
\* accumulates (p[c] / size summed over the pixels) is modelled as the exact
\* rational sum[c] / size, kept as numerators over the common denominator.
RECURSIVE ChannelSum(_, _)
ChannelSum(pixels, c) ==
    IF pixels = <<>> THEN 0
    ELSE Head(pixels)[c] + ChannelSum(Tail(pixels), c)

Mean(pixels) ==
    [sum |-> <<ChannelSum(pixels, 1), ChannelSum(pixels, 2), ChannelSum(pixels, 3)>>,
     size |-> Len(pixels)]

\* core.py:245-262  delta_red^2 + delta_green^2 + delta_blue^2 between an
\* integer pixel and a mean; the value is scaled by size^2 (the same positive
\* factor for every palette entry of one scan), which keeps it an integer.
colordiff_rgb(pixel1, mean) ==
    LET d(c) == pixel1[c] * mean.size - mean.sum[c]
    IN  d(1) * d(1) + d(2) * d(2) + d(3) * d(3)

\* core.py:227-242, 265-287  the difference of every palette entry to the
\* mean.  In the Lab space the value comes from colormath (delta_e_cie1976),
\* which is no code of this repository: lab[k] is the value it returns for
\* palette[k] and the mean.
colordiff(color_space, palette, mean, lab) ==
    [k \in 1..Len(palette) |->
        IF color_space = LAB THEN lab[k] ELSE colordiff_rgb(palette[k], mean)]

\* the tables a deterministic metric can return: equal entries, equal values
LabTables(palette) ==
    {t \in [1..Len(palette) -> LabDiffValues] :
        \A j, k \in 1..Len(palette) : palette[j] = palette[k] => t[j] = t[k]}

\* core.py:219  if candidate_diff < best_diff
BetterAlt(candidate_diff, best_diff) == candidate_diff <= best_diff
Better(candidate_diff, best_diff) == candidate_diff < best_diff

RECURSIVE ScanPalette(_, _, _, _, _)
\* core.py:217-221  for i in range(1, len(palette)); i is the 1-based index
ScanPalette(palette, diffs, i, best_color, best_diff) ==
    IF i > Len(palette) THEN best_color
    ELSE IF Better(diffs[i], best_diff)
         THEN ScanPalette(palette, diffs, i + 1, palette[i], diffs[i])
         ELSE ScanPalette(palette, diffs, i + 1, best_color, best_diff)

\* core.py:196-225  the result is a palette entry, or the mean when the
\* palette is None or empty ("if self.palette")
avg_color(pixels, palette, diffs) ==
    IF palette # <<>>
    THEN [kind |-> "palette",
          color |-> ScanPalette(palette, diffs, 2, palette[1], diffs[1])]
    ELSE [kind |-> "mean", color |-> Mean(pixels)]

\* one call of avg_color on a block and a palette
AvgColorCall ==
    /\ red.pc = "called"
    /\ red' = [red EXCEPT !.pc = "returned",
                          !.result = avg_color(red.pixels, red.palette, red.diffs)]
    /\ UNCHANGED <<fbd, pipeVars>>

InitAvgColor ==
    /\ fbd = FbdIdle
    /\ PipeIdle
    /\ \E pixels \in SeqsUpTo(PixelValues, MaxBlockPixels) \ {<<>>},
          palette \in SeqsUpTo(PaletteColors, MaxPalette),
          color_space \in {RGB, LAB} :
         \E lab \in IF color_space = LAB THEN LabTables(palette)
                    ELSE {[k \in 1..Len(palette) |-> 0]} :
            red = [pixels |-> pixels, palette |-> palette,
                   color_space |-> color_space,
                   diffs |-> colordiff(color_space, palette, Mean(pixels), lab),
                   pc |-> "called", result |-> <<>>]

NextAvgColor == AvgColorCall

SpecAvgColor == InitAvgColor /\ [][NextAvgColor]_vars

\* ---------------------------------------------------------------- claim C5
\* C5: with a non-empty palette the color reducer returns a palette entry
\* whose difference to the block mean is minimal over the whole palette, and
\* among the entries of minimal difference the one of smallest index.
C5_FirstNearestEntry ==
    (red.pc = "returned" /\ red.palette # <<>>) =>
        /\ red.result.kind = "palette"
        /\ \E k \in 1..Len(red.palette) :
              /\ red.result.color = red.palette[k]
              /\ \A j \in 1..Len(red.palette) : red.diffs[k] <= red.diffs[j]
              /\ \A j \in 1..(k - 1) : red.diffs[k] < red.diffs[j]

\* two different entries tie for the minimum under the RGB metric, after a
\* farther first entry: the mean of (Black, Red) is as far from Black as
\* from Red
C5_Witness ==
    /\ red.pc = "returned"
    /\ red.color_space = RGB
    /\ red.pixels = <<Black, Red>>
    /\ red.palette = <<White, Red, Black>>
    /\ red.result.color = Red

\* ================================================================== images
\* A PIL image: its size and its pixels, (x, y) with x the column.
Coords(w, h) == (0..(w - 1)) \X (0..(h - 1))

Patterns == {"black", "red", "checker", "corner", "columns"}

PatternPixel(pattern, x, y) ==
    CASE pattern = "black" -> Black
      [] pattern = "red" -> Red
      [] pattern = "checker" -> IF (x + y) % 2 = 0 THEN Black ELSE Red
      [] pattern = "corner" -> IF x = 0 /\ y = 0 THEN Dark ELSE Black
      [] pattern = "columns" -> IF x % 2 = 0 THEN Red ELSE Dark

PatternImage(w, h, pattern) ==
    [size |-> <<w, h>>,
     px |-> [c \in Coords(w, h) |-> PatternPixel(pattern, c[1], c[2])]]

Images ==
    {PatternImage(w, h, pattern) :
        w \in 1..MaxWidth, h \in 1..MaxHeight, pattern \in Patterns}

\* PIL Image.crop(bbox): the region of the box; what lies outside the image
\* is filled with zeros
Crop(im, bbox) ==
    LET w == bbox[3] - bbox[1]
        h == bbox[4] - bbox[2]
    IN  [size |-> <<w, h>>,
         px |-> [c \in Coords(w, h) |->
                    LET x == bbox[1] + c[1]
                        y == bbox[2] + c[2]
                    IN  IF <<x, y>> \in DOMAIN im.px THEN im.px[<<x, y>>]
                        ELSE Black]]

\* PIL Image.getdata(): the pixels row by row
GetData(im) ==
    [k \in 1..(im.size[1] * im.size[2]) |->
        im.px[<<(k - 1) % im.size[1], (k - 1) \div im.size[1]>>]]

InBox(x, y, bbox) ==
    /\ bbox[1] <= x /\ x < bbox[3]
    /\ bbox[2] <= y /\ y < bbox[4]

\* PIL Image.paste(color, bbox): fills the box (right and bottom exclusive)
PasteShort(im, color, bbox) ==
    [im EXCEPT !.px = [c \in DOMAIN im.px |->
        IF InBox(c[1], c[2], <<bbox[1], bbox[2], bbox[3] - 1, bbox[4]>>)
        THEN color ELSE im.px[c]]]
Paste(im, color, bbox) ==
    [im EXCEPT !.px = [c \in DOMAIN im.px |->
        IF InBox(c[1], c[2], bbox) THEN color ELSE im.px[c]]]

\* ============================================================= grid mapper
\* division that truncates toward zero
TruncDiv(a, b) == IF a >= 0 THEN a \div b ELSE -((-a) \div b)

get_bbox_at_pos_swapped(obj, pos) ==
    LET i == (pos % obj.grid_height) * obj.block_width
        j == (pos \div obj.grid_height) * obj.block_height
    IN  <<i, j, i + obj.block_width, j + obj.block_height>>
get_bbox_at_pos_trunc(obj, pos) ==
    LET i == (pos % obj.grid_width) * obj.block_width
        j == TruncDiv(pos, obj.grid_width) * obj.block_height
    IN  <<i, j, i + obj.block_width, j + obj.block_height>>
get_bbox_at_pos_overlap(obj, pos) ==
    LET i == (pos % obj.grid_width) * obj.block_width
        j == (pos \div obj.grid_width) * obj.block_height
    IN  <<i, j, i + obj.block_width + 1, j + obj.block_height>>
\* core.py:174-194  (Python's % and // floor, as % and \div do)
get_bbox_at_pos(obj, pos) ==
    LET i == (pos % obj.grid_width) * obj.block_width
        j == (pos \div obj.grid_width) * obj.block_height
    IN  <<i, j, i + obj.block_width, j + obj.block_height>>

\* core.py:160-172
get_block_at_pos(obj, pos) == Crop(obj.im, get_bbox_at_pos(obj, pos))

\* core.py:149  round(c): Python rounds a float half to even
RoundHalfEven(num, den) ==
    LET q == num \div den
        r == num % den
    IN  IF 2 * r < den THEN q
        ELSE IF 2 * r > den THEN q + 1
        ELSE IF q % 2 = 0 THEN q ELSE q + 1

\* core.py:149  tuple(round(c) for c in self.avg_color(...)); a palette
\* entry is integer-valued already
RoundColor(res) ==
    IF res.kind = "palette" THEN res.color
    ELSE [c \in 1..3 |-> RoundHalfEven(res.color.sum[c], res.color.size)]

\* ================================================================ pipeline
\* the three outcomes of PixelArt.__init__ short of an object
\* core.py:45-98  PixelArt(filename, granularity, ncolors, nbits,
\* color_space, verbose) on the files of e: the position reached and the
\* fields set
ConstructOutcome(a, e) ==
    IF ~e.readable THEN [pc |-> "exit", self |-> SelfNone]
    ELSE IF a.nbits # 24 /\ ~e.palette_ok THEN [pc |-> "exit", self |-> SelfNone]
    ELSE IF ~(a.granularity > 0) THEN [pc |-> "AssertionError", self |-> SelfNone]
    ELSE
      LET width == e.im.size[1]
          height == e.im.size[2]
          block_width == find_block_dim(width, a.granularity)
          block_height == find_block_dim(height, a.granularity)
          grid_width == width \div block_width
          grid_height == height \div block_height
          nblocks == grid_width * grid_height
          obj == [granularity |-> a.granularity, ncolors |-> a.ncolors,
                  nbits |-> a.nbits, color_space |-> a.color_space,
                  verbose |-> a.verbose, im |-> e.im,
                  palette |-> IF a.nbits # 24 THEN e.palette ELSE <<>>,
                  width |-> width, height |-> height,
                  block_width |-> block_width, block_height |-> block_height,
                  grid_width |-> grid_width, grid_height |-> grid_height,
                  nblocks |-> nblocks, blocks |-> <<>>]
      IN  [pc |-> "constructed",
           self |-> [obj EXCEPT !.blocks =
                        [n \in 1..nblocks |-> get_block_at_pos(obj, n - 1)]]]

\* core.py:10-17  the object is built by a caller of the package
Construct ==
    /\ pc = "api"
    /\ LET o == ConstructOutcome(args, env)
       IN  /\ pc' = o.pc
           /\ self' = o.self
    /\ UNCHANGED <<fbd, red, caller, env, args, pixelated_im, loop_i, colors, pasted,
                   labmemo, ret, query, out>>

\* parser.py:22-57  validate_args on the dict argparse made (parse_args,
\* parser.py:60-63, called at __main__.py:13-14)
ValidateArgs ==
    /\ pc = "cli"
    /\ LET filename == args.filename
           nbits == args.nbits
           ncolors == args.ncolors
           granularity == args.granularity
           colordiff_fn == IF ~args.labdiff THEN "colordiff_rgb" ELSE "colordiff_lab"
           valid == ~ \/ filename[Len(filename)] = "png"
                      \/ ncolors < 1 \/ ncolors > 256
                      \/ granularity < 1
       IN  IF ~valid
           THEN /\ pc' = "exit"
                /\ args' = args
           ELSE /\ pc' = "main_args"
                /\ args' = [filename |-> filename, nbits |-> nbits,
                            ncolors |-> ncolors, granularity |-> granularity,
                            colordiff_fn |-> colordiff_fn,
                            verbose |-> args.verbose, save |-> args.save]
    /\ UNCHANGED <<fbd, red, caller, env, self, pixelated_im, loop_i, colors, pasted,
                   labmemo, ret, query, out>>

\* __main__.py:16-21  the keys main reads, in the order it reads them
MainKeys == <<"filename", "granularity", "ncolors", "nbits", "color_space", "verbose">>

\* __main__.py:16-21  pixel_art = PixelArt(args['filename'], ...): a key the
\* dict lacks raises KeyError before PixelArt is called
MainConstruct ==
    /\ pc = "main_args"
    /\ LET missing == {k \in 1..Len(MainKeys) : MainKeys[k] \notin DOMAIN args}
       IN  IF missing # {}
           THEN /\ pc' = "KeyError"
                /\ ret' = [kind |-> "KeyError",
                           key |-> MainKeys[CHOOSE k \in missing :
                                               \A m \in missing : k <= m]]
                /\ self' = self
           ELSE LET o == ConstructOutcome(args, env)
                IN  /\ pc' = o.pc
                    /\ self' = o.self
                    /\ ret' = ret
    /\ UNCHANGED <<fbd, red, caller, env, args, pixelated_im, loop_i, colors, pasted,
                   labmemo, query, out>>

\* core.py:174-194  a caller asks for the bounding box of a block index (the
\* method changes no field: one request per object is followed)
GetBBoxAtPos ==
    /\ pc = "constructed"
    /\ caller = "api"
    /\ query = NoQuery
    /\ \E pos \in (-MaxOut)..(self.nblocks - 1 + MaxOut) :
          query' = [kind |-> "bbox", pos |-> pos,
                    bbox |-> get_bbox_at_pos(self, pos)]
    /\ UNCHANGED <<fbd, red, pc, caller, env, args, self, pixelated_im, loop_i,
                   colors, pasted, labmemo, ret, out>>

\* core.py:160-172  a caller asks for the block of a block index
GetBlockAtPos ==
    /\ pc = "constructed"
    /\ caller = "api"
    /\ query = NoQuery
    /\ \E pos \in (-MaxOut)..(self.nblocks - 1 + MaxOut) :
          query' = [kind |-> "block", pos |-> pos,
                    bbox |-> get_bbox_at_pos(self, pos),
                    block |-> get_block_at_pos(self, pos)]
    /\ UNCHANGED <<fbd, red, pc, caller, env, args, self, pixelated_im, loop_i,
                   colors, pasted, labmemo, ret, out>>

\* core.py:140-141  pixelate is called: the working copy, the loop starts
PixelateStart ==
    /\ pc = "constructed"
    /\ pc' = "pixelating"
    /\ pixelated_im' = self.im
    /\ loop_i' = 0
    /\ query' = NoQuery
    /\ UNCHANGED <<fbd, red, caller, env, args, self, colors, pasted, labmemo, ret, out>>

\* core.py:141  for i in range(int(self.nblocks)): the range is used up
LoopDoneEarly(n, nblocks) == n >= nblocks - 1
LoopDone(n, nblocks) == n = nblocks

\* core.py:196-225 as called at core.py:149: what avg_color can return for a
\* block.  colormath is deterministic: a mean seen before gets the same
\* answer; a new mean gets the scan's answer for any table of Lab values.
AvgColorResults(obj, pixels, memo) ==
    LET mean == Mean(pixels)
        none == [k \in 1..Len(obj.palette) |-> 0]
    IN  IF obj.palette # <<>> /\ obj.color_space = LAB
        THEN IF mean \in DOMAIN memo
             THEN {[kind |-> "palette", color |-> memo[mean]]}
             ELSE {avg_color(pixels, obj.palette,
                             colordiff(LAB, obj.palette, mean, lab)) :
                      lab \in LabTables(obj.palette)}
        ELSE {avg_color(pixels, obj.palette,
                        colordiff(RGB, obj.palette, mean, none))}

\* core.py:141-152  one pass of pixelate's loop: the box, the color, the paste
PasteBlock ==
    /\ pc = "pixelating"
    /\ ~LoopDone(loop_i, self.nblocks)
    /\ LET bbox == get_bbox_at_pos(self, loop_i)
           pixels == GetData(self.blocks[loop_i + 1])
       IN  \E res \in AvgColorResults(self, pixels, labmemo) :
              /\ pixelated_im' = Paste(pixelated_im, RoundColor(res), bbox)
              /\ colors' = Append(colors, RoundColor(res))
              /\ pasted' = Append(pasted, loop_i)
              /\ labmemo' = IF self.palette # <<>> /\ self.color_space = LAB
                            THEN (Mean(pixels) :> res.color) @@ labmemo
                            ELSE labmemo
    /\ loop_i' = loop_i + 1
    /\ UNCHANGED <<fbd, red, pc, caller, env, args, self, ret, query, out>>

\* core.py:156-157  the loop is over: convert("P", palette=ADAPTIVE,
\* colors=ncolors) and return.  PIL's quantizer raises ValueError for a
\* number of colors outside 1..256; otherwise the image keeps its size.
Quantize ==
    /\ pc = "pixelating"
    /\ LoopDone(loop_i, self.nblocks)
    /\ IF self.ncolors < 1 \/ self.ncolors > 256
       THEN /\ pc' = "ValueError"
            /\ ret' = [kind |-> "ValueError"]
       ELSE /\ pc' = "returned"
            /\ ret' = [kind |-> "image", size |-> pixelated_im.size,
                       ncolors |-> self.ncolors]
    /\ UNCHANGED <<fbd, red, caller, env, args, self, pixelated_im, loop_i,
                   colors, pasted, labmemo, query, out>>

\* __main__.py:24-32  show, save, return
MainFinish ==
    /\ pc = "returned"
    /\ caller = "main"
    /\ pc' = "main_done"
    /\ out' = [shown |-> TRUE,
               saved |-> IF args.save /\ args.verbose
                         THEN <<args.filename[1], "_pixelated.png">>
                         ELSE out.saved]
    /\ UNCHANGED <<fbd, red, caller, env, args, self, pixelated_im, loop_i,
                   colors, pasted, labmemo, ret, query>>

\* ------------------------------------------------------------- the inputs
\* a filename, split at its dots
Filenames == {<<"cat", "jpg">>, <<"cat", "png">>, <<"my", "cat", "jpg">>, <<"cat">>}

\* the palette files that can lie behind palette/<nbits>bit.palette
Palettes == {<<Black, White>>, <<White, Red, Black>>, <<>>}

Envs ==
    {NoEnv}
    \cup {[readable |-> TRUE, im |-> im, palette_ok |-> FALSE, palette |-> <<>>] :
             im \in Images}
    \cup {[readable |-> TRUE, im |-> im, palette_ok |-> TRUE, palette |-> p] :
             im \in Images, p \in Palettes}

\* what argparse hands to validate_args (parser.py:5-19, 61)
CliArgs ==
    [filename : Filenames, nbits : {3, 8, 9, 24}, ncolors : {0, 1, 256, 257},
     granularity : {0, 1, 2}, labdiff : BOOLEAN, verbose : BOOLEAN,
     save : BOOLEAN]

\* the arguments of a direct PixelArt(...)
ApiArgs ==
    [filename : {<<"cat", "jpg">>}, granularity : 0..MaxApiGranularity,
     ncolors : {2, 257}, nbits : {3, 24}, color_space : {RGB, LAB},
     verbose : {FALSE}]

PipeStart ==
    /\ fbd = FbdIdle
    /\ red = RedIdle
    /\ self = SelfNone
    /\ pixelated_im = NoImage
    /\ loop_i = 0
    /\ colors = <<>>
    /\ pasted = <<>>
    /\ labmemo = <<>>
    /\ ret = NoRet
    /\ query = NoQuery
    /\ out = NoOut

InitCli ==
    /\ pc = "cli"
    /\ caller = "main"
    /\ env = NoEnv
    /\ args \in CliArgs

InitApi ==
    /\ pc = "api"
    /\ caller = "api"
    /\ args \in ApiArgs
    /\ env \in Envs
    \* a palette file that is not read is the same whatever it holds
    /\ args.nbits = 24 => (~env.palette_ok /\ env.palette = <<>>)

Init == PipeStart /\ (InitCli \/ InitApi)

Next ==
    \/ ValidateArgs
    \/ MainConstruct
    \/ Construct
    \/ GetBBoxAtPos
    \/ GetBlockAtPos
    \/ PixelateStart
    \/ PasteBlock
    \/ Quantize

Spec == Init /\ [][Next]_vars

\* what validate_args' dict would be with the color_space key main reads
MainArgs ==
    [filename : {<<"cat", "jpg">>, <<"my", "cat", "jpg">>}, nbits : {3, 24},
     ncolors : {2, 256}, granularity : {1, 2}, color_space : {RGB},
     colordiff_fn : {"colordiff_rgb"}, verbose : BOOLEAN, save : BOOLEAN]

\* main from __main__.py:16 on, entered with a dict that has every key it
\* reads (the dict validate_args returns has no color_space key: under Spec
\* MainConstruct ends in KeyError)
InitMain ==
    /\ PipeStart
    /\ pc = "main_args"
    /\ caller = "main"
    /\ args \in MainArgs
    /\ env \in Envs
    /\ args.nbits = 24 => (~env.palette_ok /\ env.palette = <<>>)

NextMain ==
    \/ MainConstruct
    \/ PixelateStart
    \/ PasteBlock
    \/ Quantize
    \/ MainFinish

SpecMain == InitMain /\ [][NextMain]_vars

\* --------------------------------------------------------- claims C4, C6-C10
\* __init__ has returned an object; its fields do not change afterwards
Constructed == pc = "constructed"

Pasted == pc = "pixelating" /\ loop_i = self.nblocks

BlockIndices == 0..(self.nblocks - 1)

\* the blocks whose bounding box holds the pixel (x, y)
BlocksAt(x, y) == {n \in BlockIndices : InBox(x, y, get_bbox_at_pos(self, n))}

\* C4: the grid times the block is the image in both directions, and the
\* bounding boxes of the indices 0..nblocks-1 tile the image: each lies
\* inside [0, width] x [0, height] and every pixel is in exactly one of them.
C4_BoxesTileImage ==
    Constructed =>
        /\ self.grid_width * self.block_width = self.width
        /\ self.grid_height * self.block_height = self.height
        /\ \A n \in BlockIndices :
              LET bbox == get_bbox_at_pos(self, n)
              IN  /\ 0 <= bbox[1] /\ bbox[1] < bbox[3] /\ bbox[3] <= self.width
                  /\ 0 <= bbox[2] /\ bbox[2] < bbox[4] /\ bbox[4] <= self.height
        /\ \A c \in Coords(self.width, self.height) :
              Cardinality(BlocksAt(c[1], c[2])) = 1

\* a grid of several rows and columns of blocks of several pixels
C4_Witness ==
    /\ pc = "constructed"
    /\ self.width = 4 /\ self.height = 4
    /\ self.block_width = 2 /\ self.block_height = 2
    /\ self.nblocks = 4

OutOfRange(pos) == pos < 0 \/ pos >= self.nblocks

\* C6 as stated: asking for the bounding box or the block of an index outside
\* [0, nblocks) fails with an out-of-range error and returns no box or region.
C6_Original ==
    (query.kind # "none" /\ OutOfRange(query.pos)) => query.kind = "OutOfRange"

\* C6 (amended): get_bbox_at_pos and get_block_at_pos do not check the index.
\* For an index outside [0, nblocks) they return, without an error, a box of
\* block_width x block_height whose columns are inside the image and whose
\* rows are all outside it (below it for n >= nblocks, above it for n < 0),
\* and get_block_at_pos returns the crop of that box, which holds no pixel of
\* the image.
C6_OutsideBoxNoError ==
    (query.kind # "none" /\ OutOfRange(query.pos)) =>
        /\ query.kind \in {"bbox", "block"}
        /\ query.bbox[3] - query.bbox[1] = self.block_width
        /\ query.bbox[4] - query.bbox[2] = self.block_height
        /\ 0 <= query.bbox[1] /\ query.bbox[3] <= self.width
        /\ query.pos >= self.nblocks => query.bbox[2] >= self.height
        /\ query.pos < 0 => query.bbox[4] <= 0
        /\ query.kind = "block" =>
              /\ query.block.size = <<self.block_width, self.block_height>>
              /\ \A c \in DOMAIN query.block.px : query.block.px[c] = Black

C6_Witness ==
    /\ query.kind = "block"
    /\ query.pos = -1
    /\ self.nblocks = 4
    /\ self.im # PatternImage(4, 4, "black")

InvalidRequest == args.granularity < 1 \/ args.ncolors < 1 \/ args.ncolors > 256

\* C7 as stated: a run requested with granularity < 1 or ncolors outside
\* [1, 256] fails before any block is pasted and returns no image, from the
\* command line and from PixelArt used directly.
C7_Original ==
    InvalidRequest => (colors = <<>> /\ ret.kind # "image")

\* the color avg_color and round give for block n of the source image
RepColors(n) ==
    {RoundColor(r) :
        r \in AvgColorResults(self, GetData(Crop(self.im, get_bbox_at_pos(self, n))), <<>>)}

\* C8: when pixelate has pasted all blocks, the working image has the size of
\* the input and every pixel holds the color computed for the one block whose
\* bounding box contains it.
C8_EveryPixelBlockColor ==
    Pasted =>
        /\ pixelated_im.size = self.im.size
        /\ DOMAIN pixelated_im.px = DOMAIN self.im.px
        /\ Len(colors) = self.nblocks
        /\ \A n \in BlockIndices : colors[n + 1] \in RepColors(n)
        /\ \A c \in DOMAIN pixelated_im.px :
              \E n \in BlockIndices :
                 /\ BlocksAt(c[1], c[2]) = {n}
                 /\ pixelated_im.px[c] = colors[n + 1]

\* blocks of several pixels, and a pixel that lost its source value
C8_Witness ==
    /\ Pasted
    /\ self.block_width = 2 /\ self.block_height = 2
    /\ self.nblocks = 4
    /\ \E c \in DOMAIN pixelated_im.px : pixelated_im.px[c] # self.im.px[c]

RECURSIVE PasteInOrder(_, _)
\* the pastes of core.py:146-152 made in the order of a sequence of block
\* indices, into a copy of the source image
PasteInOrder(im, order) ==
    IF order = <<>> THEN im
    ELSE PasteInOrder(Paste(im, colors[Head(order) + 1],
                            get_bbox_at_pos(self, Head(order))),
                      Tail(order))

Orders == {o \in [1..self.nblocks -> BlockIndices] :
              \A n \in BlockIndices : \E k \in 1..self.nblocks : o[k] = n}

\* C9: the order of the blocks does not matter: pasting the blocks' colors in
\* any permutation of 0..nblocks-1 gives the working image pixelate built in
\* increasing order (grids of at most MaxPermBlocks blocks).
C9_AnyOrderSameImage ==
    (Pasted /\ self.nblocks <= MaxPermBlocks) =>
        \A o \in Orders : PasteInOrder(self.im, o) = pixelated_im

\* four blocks that did not all get the same color
C9_Witness ==
    /\ Pasted
    /\ self.nblocks = 4
    /\ \E m, n \in 1..4 : colors[m] # colors[n]

C11_TerminatesAfterSaturation ==
    /\ <>(fbd.pc \in {"done", "assert_failed"})
    /\ [](fbd.candidate <= fbd.dim + 2)
    /\ [][(fbd.pc = "inner" /\ fbd'.candidate > fbd.dim /\ fbd'.candidate # fbd.candidate)
            => (fbd'.counter = fbd.granularity - 1 /\ fbd'.pc = "check")]_vars
    /\ [][(fbd.pc = "check" /\ fbd.candidate > fbd.dim)
            => (fbd'.counter = fbd.granularity /\ fbd'.pc = "outer"
                /\ fbd'.block_dim = fbd.block_dim)]_vars
    /\ [][(fbd.pc = "outer" /\ fbd.candidate > fbd.dim) => fbd'.pc = "done"]_vars

\* a call that left the inner search above dim and returned
C11_Witness ==
    /\ fbd.pc = "done"
    /\ fbd.dim = 12
    /\ fbd.granularity = 7
    /\ fbd.candidate = fbd.dim + 2
    /\ fbd.counter = fbd.granularity

\* --------------------------------------------------------------- claim C12
Quantized == pc \in {"returned", "ValueError"}

\* C12: in a run of pixelate the pastes are those of the block indices
\* 0, 1, 2, ... in this order, each into the bounding box of its index; the
\* quantization happens when all of 0..nblocks-1 have been pasted, and no
\* paste follows it.
C12_PastesInOrderThenQuantize ==
    /\ [](/\ Len(pasted) <= self.nblocks
          /\ pasted = [k \in 1..Len(pasted) |-> k - 1]
          /\ Len(colors) = Len(pasted))
    /\ [][pasted' # pasted =>
            /\ Len(pasted') = Len(pasted) + 1
            /\ pixelated_im' = Paste(pixelated_im, colors'[Len(colors')],
                                     get_bbox_at_pos(self, pasted'[Len(pasted')]))]_vars
    /\ [][pixelated_im' # pixelated_im => (pasted' # pasted \/ pc = "constructed")]_vars
    /\ [](Quantized => pasted = [k \in 1..self.nblocks |-> k - 1])
    /\ [][Quantized => (pasted' = pasted /\ pixelated_im' = pixelated_im)]_vars

\* a run that pasted twelve blocks and then quantized
C12_Witness ==
    /\ pc = "returned"
    /\ self.nblocks = 12
    /\ pasted = <<0, 1, 2, 3, 4, 5, 6, 7, 8, 9, 10, 11>>

\* ======================================= the script pixel_artist.py (legacy)
\* pixel_artist.py:85-95  the box get_block crops for block n.  The script
\* divides with "/", which in Python 3 gives a float: grid_width is
\* width / block_width (a whole number, block_width divides width) and
\* j = (n / grid_width) * block_height need not be whole.  Image.crop of the
\* pinned Pillow (setup.py:22) rounds every coordinate (round, half to even).
legacy_get_block_box(width, n, block_width, block_height) ==
    LET grid_width == width \div block_width
        i == (n % grid_width) * block_width
    IN  <<i,
          RoundHalfEven(n * block_height, grid_width),
          i + block_width,
          RoundHalfEven(n * block_height + block_height * grid_width, grid_width)>>

\* pixel_artist.py:85-95
legacy_get_block(im, n, block_width, block_height) ==
    Crop(im, legacy_get_block_box(im.size[1], n, block_width, block_height))

\* pixel_artist.py:47-49  the box pixelate pastes block n into
legacy_paste_box(obj, n) ==
    LET i == (n % obj.grid_width) * obj.block_width
        j == (n \div obj.grid_width) * obj.block_height
    IN  <<i, j, i + obj.block_width, j + obj.block_height>>

\* pixel_artist.py:100-106  the channel means; a block without pixels leaves
\* them at 0.0
LegacyMean(pixels) ==
    IF pixels = <<>> THEN [sum |-> <<0, 0, 0>>, size |-> 1] ELSE Mean(pixels)

\* pixel_artist.py:124  int(avg_r), int(avg_g), int(avg_b): the fraction of
\* a mean (never negative) is dropped
TruncColor(mean) == [c \in 1..3 |-> mean.sum[c] \div mean.size]

\* pixel_artist.py:99-124  what avg_color(im, nbits, colordiff) does for a
\* block: the color it returns, or how it ends
LegacyAvgColorResults(obj, e, pixels, memo) ==
    LET mean == LegacyMean(pixels)
        none == [k \in 1..Len(e.palette) |-> 0]
    IN  IF obj.nbits # 24
        THEN IF ~e.palette_ok THEN {[kind |-> "exit"]}
             ELSE IF e.palette = <<>> THEN {[kind |-> "IndexError"]}
             ELSE IF obj.color_space = LAB
                  THEN IF mean \in DOMAIN memo
                       THEN {[kind |-> "palette", color |-> memo[mean]]}
                       ELSE {avg_color(pixels, e.palette,
                                       colordiff(LAB, e.palette, mean, lab)) :
                                lab \in LabTables(e.palette)}
                  ELSE {avg_color(pixels, e.palette,
                                  colordiff(RGB, e.palette, mean, none))}
        ELSE {[kind |-> "mean", color |-> TruncColor(mean)]}

\* pixel_artist.py:20-41  pixelate(im, granularity, ncolors, nbits,
\* colordiff, verbose): the sizes, the blocks, the copy
LegacyFetchBlocks ==
    /\ pc = "legacy"
    /\ LET width == env.im.size[1]
           height == env.im.size[2]
           block_width == find_block_dim(width, args.granularity)
           block_height == find_block_dim(height, args.granularity)
           grid_width == width \div block_width
           grid_height == height \div block_height
           nblocks == grid_width * grid_height
       IN  self' = [granularity |-> args.granularity, ncolors |-> args.ncolors,
                    nbits |-> args.nbits, color_space |-> args.color_space,
                    verbose |-> args.verbose, im |-> env.im, palette |-> <<>>,
                    width |-> width, height |-> height,
                    block_width |-> block_width, block_height |-> block_height,
                    grid_width |-> grid_width, grid_height |-> grid_height,
                    nblocks |-> nblocks,
                    blocks |-> [n \in 1..nblocks |->
                        legacy_get_block(env.im, n - 1, block_width, block_height)]]
    /\ pixelated_im' = env.im
    /\ loop_i' = 0
    /\ pc' = "legacy_pixelating"
    /\ UNCHANGED <<fbd, red, caller, env, args, colors, pasted, labmemo, ret,
                   query, out>>

\* pixel_artist.py:42-55  one pass of the loop: the box, the color, the paste
LegacyPasteBlock ==
    /\ pc = "legacy_pixelating"
    /\ ~LoopDone(loop_i, self.nblocks)
    /\ LET box == legacy_paste_box(self, loop_i)
           pixels == GetData(self.blocks[loop_i + 1])
       IN  \E res \in LegacyAvgColorResults(self, env, pixels, labmemo) :
              IF res.kind \in {"exit", "IndexError"}
              THEN /\ pc' = res.kind
                   /\ UNCHANGED <<pixelated_im, colors, pasted, labmemo, loop_i>>
              ELSE /\ pixelated_im' = Paste(pixelated_im, res.color, box)
                   /\ colors' = Append(colors, res.color)
                   /\ pasted' = Append(pasted, loop_i)
                   /\ labmemo' = IF res.kind = "palette" /\ self.color_space = LAB
                                 THEN (LegacyMean(pixels) :> res.color) @@ labmemo
                                 ELSE labmemo
                   /\ loop_i' = loop_i + 1
                   /\ pc' = pc
    /\ UNCHANGED <<fbd, red, caller, env, args, self, ret, query, out>>

\* pixel_artist.py:57-58  convert and return (ncolors was checked at
\* pixel_artist.py:181-183)
LegacyQuantize ==
    /\ pc = "legacy_pixelating"
    /\ LoopDone(loop_i, self.nblocks)
    /\ pc' = "returned"
    /\ ret' = [kind |-> "image", size |-> pixelated_im.size,
               ncolors |-> self.ncolors]
    /\ UNCHANGED <<fbd, red, caller, env, args, self, pixelated_im, loop_i,
                   colors, pasted, labmemo, query, out>>

\* the arguments pixel_artist.py:193 hands to pixelate: granularity and
\* ncolors have passed the tests of pixel_artist.py:181-186
LegacyArgs ==
    [granularity : 1..MaxApiGranularity, ncolors : {2, 256}, nbits : {3, 24},
     color_space : {RGB, LAB}, verbose : {FALSE}]

InitLegacy ==
    /\ PipeStart
    /\ pc = "legacy"
    /\ caller = "script"
    /\ args \in LegacyArgs
    /\ env \in Envs
    /\ env.readable
    /\ args.nbits = 24 => (~env.palette_ok /\ env.palette = <<>>)

NextLegacy ==
    \/ LegacyFetchBlocks
    \/ LegacyPasteBlock
    \/ LegacyQuantize

SpecLegacy == InitLegacy /\ [][NextLegacy]_vars

\* -------------------------------------------------------- claims C13, C14
\* C13 as stated: for every block index n the region the block's color is
\* computed from is the bounding box the color is pasted into,
\* ((n mod grid_width) * block_width, (n div grid_width) * block_height,
\* left + block_width, top + block_height), with floor division in both
\* places.
C13_Original ==
    pc = "legacy_pixelating" =>
        \A n \in BlockIndices :
            /\ legacy_get_block_box(self.width, n, self.block_width, self.block_height)
                   = legacy_paste_box(self, n)
            /\ self.blocks[n + 1] = Crop(self.im, legacy_paste_box(self, n))

\* C14 as stated: without a palette (24 bits) each channel of the color
\* pasted for a block is the block's channel mean rounded to the nearest
\* integer, not truncated, and lies in 0..255.
C14_Original ==
    (pc \in {"legacy_pixelating", "returned"} /\ self.nbits = 24) =>
        \A k \in 1..Len(colors) :
            LET mean == LegacyMean(GetData(self.blocks[pasted[k] + 1]))
            IN  \A c \in 1..3 :
                   /\ colors[k][c] \in 0..255
                   /\ 2 * colors[k][c] * mean.size - 2 * mean.sum[c] <= mean.size
                   /\ 2 * mean.sum[c] - 2 * colors[k][c] * mean.size <= mean.size

\* C15 as stated: every key main reads from the validated dict is a key
\* validate_args put there, so a command line that passes validation reaches
\* PixelArt(...) and never fails on a missing key.
C15_Original ==
    /\ pc = "main_args" => \A k \in 1..Len(MainKeys) : MainKeys[k] \in DOMAIN args
    /\ pc # "KeyError"

====
